---- MODULE Spec2Model ----
(***************************************************************************)
(* Model of the ByteRize FastAPI backend (src/main.py, src/schemas.py).    *)
(*                                                                         *)
(* The three document collections (product, user, order) are the state.   *)
(* Handlers that perform a single store operation are one atomic action.   *)
(* create_order performs one store operation per item and a final insert,  *)
(* and FastAPI runs sync handlers on a thread pool, so it is split at its  *)
(* store operations: create_order (validation, lines 205-210), AdjustItem  *)
(* (one iteration of the loop, lines 213-220) and InsertOrder (222-224).   *)
(*                                                                         *)
(* Money is counted in thousandths (1000 = 1.00); round(x, 2) yields       *)
(* hundredths.  Object ids are positive integers, the malformed id is 0.   *)
(* Fields that no handler reads (title, description, name, ...) are left   *)
(* out of the documents.                                                   *)
(***************************************************************************)
EXTENDS Integers, Sequences, FiniteSets, TLC

VARIABLES product, user, order, next_id, clock, response,
          pc, req, now, idx, resp, matched, initial_stock, admin_approved

vars == <<product, user, order, next_id, clock, response,
          pc, req, now, idx, resp, matched, initial_stock, admin_approved>>

order_vars == <<pc, req, now, idx, resp, matched>>

(* ------------------------------ bounds --------------------------------- *)

MaxItems == 2
MaxProducts == 2
MaxClock == 6

Workers == {1, 2}
XAdmin == {"true", "false", "none"}
Emails == {"a@x.io", "b@x.io"}
Passwords == {"pw", "other"}
Roles == {"customer", "admin"}
StockQtys == {-1, 0, 2}
Quantities == {0, 1, 2}
Prices == {-1000, 1004}
Totals == {-1000, 0, 1000, 2000, 2010}

SeqsUpTo(S, n) == UNION {[1..k -> S] : k \in 0..n}

(* requests of the order-placement specification: any price, quantity and  *)
(* claimed total, on product 1 or on the malformed id                      *)
WideItems == [product_id : {0, 1}, price : Prices, quantity : Quantities]

(* requests of the concurrent specification: orders worth 2.00 whose       *)
(* claimed total is right, on products 1, 2 and on the malformed id        *)
RaceItems == [product_id : {0, 1, 2}, price : {1000}, quantity : {1, 2}]

(* ------------------------------ helpers -------------------------------- *)

\* round(x, 2): x in thousandths, result in hundredths, ties to even
round2(x) ==
    LET q == x \div 10
        m == x % 10
    IN  IF m < 5 THEN q
        ELSE IF m > 5 THEN q + 1
        ELSE IF q % 2 = 0 THEN q ELSE q + 1

RECURSIVE calc_total(_)
calc_total(items) ==
    IF items = <<>> THEN 0
    ELSE Head(items).price * Head(items).quantity + calc_total(Tail(items))

\* variant: totals compared as whole units, int(calc_total) != int(total)
TotalsMatchWhole(items, total) ==
    (calc_total(items) \div 1000) = (total \div 1000)

TotalsMatch(items, total) == round2(calc_total(items)) = round2(total)

\* Field(..., ge=1) on OrderItem.quantity, Field(..., ge=0) on OrderIn.total
OrderInValid(items, total) ==
    /\ \A i \in 1..Len(items) : items[i].quantity >= 1
    /\ total >= 0

\* Field(10, ge=0) on ProductIn.stock_qty
ProductInValid(stock_qty) == stock_qty >= 0

\* bson.ObjectId(s) raises InvalidId unless s is a well-formed id
IsObjectId(s) == s >= 1

require_admin(x_admin) == x_admin = "true"

\* _id is popped and re-keyed as id; the other fields are kept
oid_to_str(doc) ==
    [k \in (DOMAIN doc \ {"_id"}) \cup {"id"} |->
        IF k = "id" THEN doc["_id"] ELSE doc[k]]

\* update_one({_id, stock_qty: {$gte: qty}}, {$inc: -qty, $set: updated_at})
matched_count(prod, pid, qty) ==
    IF pid \in DOMAIN prod /\ prod[pid].stock_qty >= qty THEN 1 ELSE 0

\* variant: the filter lacks the stock_qty $gte condition
update_one_unconditional(prod, pid, qty, t) ==
    IF pid \in DOMAIN prod
    THEN [prod EXCEPT ![pid].stock_qty = @ - qty, ![pid].updated_at = t]
    ELSE prod

\* variant: $inc by -1 whatever the item's quantity
update_one_single(prod, pid, qty, t) ==
    IF pid \in DOMAIN prod /\ prod[pid].stock_qty >= qty
    THEN [prod EXCEPT ![pid].stock_qty = @ - 1, ![pid].updated_at = t]
    ELSE prod

update_one(prod, pid, qty, t) ==
    IF pid \in DOMAIN prod /\ prod[pid].stock_qty >= qty
    THEN [prod EXCEPT ![pid].stock_qty = @ - qty, ![pid].updated_at = t]
    ELSE prod

\* variant: updated_at taken from a second datetime.now(), as register_user
NewOrderDocTwoNows(rq, t) ==
    [user_email |-> rq.user_email, items |-> rq.items, total |-> rq.total,
     status |-> "pending", created_at |-> t, updated_at |-> t + 1]

NewOrderDoc(rq, t) ==
    [user_email |-> rq.user_email, items |-> rq.items, total |-> rq.total,
     status |-> "pending", created_at |-> t, updated_at |-> t]

insert_one(coll, doc, id) ==
    Append(coll, [k \in DOMAIN doc \cup {"_id"} |->
                    IF k = "_id" THEN id ELSE doc[k]])

NoReq == [user_email |-> "", items |-> <<>>, total |-> 0]
NoResp == [status |-> 0, detail |-> ""]

(* ------------------------------- state --------------------------------- *)

\* product, user : collection as a function from key to document
\* order         : collection as the sequence of inserted documents
\* next_id       : next ObjectId the store generates, per collection
\* clock         : value of the next datetime.now()
\* response      : last response of an atomic handler
\* pc, req, now, idx, resp : per in-flight create_order call: position,
\*                 OrderIn body, local `now`, loop index, response
\* matched       : history of the UpdateResult.matched_count of each item
\* initial_stock : history of the stock_qty each product was created with
\* admin_approved: history of the emails approve_user has approved
Init ==
    /\ product = <<>>
    /\ user = <<>>
    /\ order = <<>>
    /\ next_id = [product |-> 1, order |-> 1]
    /\ clock = 0
    /\ response = [op |-> "none", status |-> 0, detail |-> ""]
    /\ pc = [r \in Workers |-> "idle"]
    /\ req = [r \in Workers |-> NoReq]
    /\ now = [r \in Workers |-> 0]
    /\ idx = [r \in Workers |-> 0]
    /\ resp = [r \in Workers |-> NoResp]
    /\ matched = [r \in Workers |-> <<>>]
    /\ initial_stock = <<>>
    /\ admin_approved = {}

Put(coll, key, doc) ==
    [k \in DOMAIN coll \cup {key} |-> IF k = key THEN doc ELSE coll[k]]

Remove(coll, key) == [k \in DOMAIN coll \ {key} |-> coll[k]]

\* quantity the updates of call r have taken from product p so far
RECURSIVE AppliedUpTo(_, _, _)
AppliedUpTo(r, p, n) ==
    IF n = 0 THEN 0
    ELSE AppliedUpTo(r, p, n - 1)
         + (IF matched[r][n] = 1 /\ req[r].items[n].product_id = p
            THEN req[r].items[n].quantity ELSE 0)

Applied(r, p) == AppliedUpTo(r, p, Len(matched[r]))

RECURSIVE AppliedBy(_, _)
AppliedBy(S, p) ==
    IF S = {} THEN 0
    ELSE LET r == CHOOSE x \in S : TRUE
         IN  Applied(r, p) + AppliedBy(S \ {r}, p)

(* ------------------------------ products ------------------------------- *)

create_product(stock_qty, x_admin) ==
    /\ clock < MaxClock
    /\ next_id.product <= MaxProducts
    /\ IF ~ProductInValid(stock_qty)
       THEN /\ response' = [op |-> "create_product", status |-> 422,
                            detail |-> "validation error"]
            /\ UNCHANGED <<product, clock, next_id, initial_stock>>
       ELSE IF ~require_admin(x_admin)
       THEN /\ response' = [op |-> "create_product", status |-> 403,
                            detail |-> "Admin access required"]
            /\ UNCHANGED <<product, clock, next_id, initial_stock>>
       ELSE /\ product' = Put(product, next_id.product,
                    [stock_qty |-> stock_qty, created_at |-> clock,
                     updated_at |-> clock])
            /\ initial_stock' = Put(initial_stock, next_id.product, stock_qty)
            /\ next_id' = [next_id EXCEPT !.product = @ + 1]
            /\ clock' = clock + 1
            /\ response' = [op |-> "create_product", status |-> 200,
                            detail |-> ""]
    /\ UNCHANGED <<user, order, order_vars, admin_approved>>

delete_product(product_id, x_admin) ==
    /\ IF ~require_admin(x_admin)
       THEN /\ response' = [op |-> "delete_product", status |-> 403,
                            detail |-> "Admin access required",
                            product_id |-> product_id, x_admin |-> x_admin]
            /\ UNCHANGED product
       ELSE IF ~IsObjectId(product_id)
       THEN \* ObjectId() raises InvalidId, caught by `except Exception`
            /\ response' = [op |-> "delete_product", status |-> 400,
                            detail |-> "Invalid product id",
                            product_id |-> product_id, x_admin |-> x_admin]
            /\ UNCHANGED product
       ELSE IF product_id \notin DOMAIN product
       THEN \* deleted_count = 0: the HTTPException(404) is raised inside
            \* the try block and caught by the same `except Exception`
            /\ response' = [op |-> "delete_product", status |-> 400,
                            detail |-> "Invalid product id",
                            product_id |-> product_id, x_admin |-> x_admin]
            /\ UNCHANGED product
       ELSE /\ product' = Remove(product, product_id)
            /\ response' = [op |-> "delete_product", status |-> 200,
                            detail |-> "", product_id |-> product_id,
                            x_admin |-> x_admin]
    /\ UNCHANGED <<user, order, next_id, clock, order_vars,
                   initial_stock, admin_approved>>

(* ------------------------------- orders -------------------------------- *)

create_order(r, user_email, items, total) ==
    /\ pc[r] = "idle"
    /\ clock < MaxClock
    /\ req' = [req EXCEPT ![r] = [user_email |-> user_email,
                                  items |-> items, total |-> total]]
    /\ IF ~OrderInValid(items, total)
       THEN /\ resp' = [resp EXCEPT ![r] = [status |-> 422,
                                            detail |-> "validation error"]]
            /\ pc' = [pc EXCEPT ![r] = "done"]
            /\ UNCHANGED <<now, idx, clock>>
       ELSE IF ~TotalsMatch(items, total)
       THEN /\ resp' = [resp EXCEPT ![r] = [status |-> 400,
                                            detail |-> "Total mismatch"]]
            /\ pc' = [pc EXCEPT ![r] = "done"]
            /\ UNCHANGED <<now, idx, clock>>
       ELSE /\ now' = [now EXCEPT ![r] = clock]
            /\ clock' = clock + 1
            /\ idx' = [idx EXCEPT ![r] = 1]
            /\ pc' = [pc EXCEPT ![r] = "loop"]
            /\ UNCHANGED resp
    /\ UNCHANGED <<product, user, order, next_id, response, matched,
                   initial_stock, admin_approved>>

\* variant: no try/except around the update, InvalidId reaches the caller
AdjustItemUncaught(r) ==
    /\ pc[r] = "loop"
    /\ idx[r] <= Len(req[r].items)
    /\ LET item == req[r].items[idx[r]]
       IN  IF ~IsObjectId(item.product_id)
           THEN /\ resp' = [resp EXCEPT ![r] =
                       [status |-> 500, detail |-> "Internal Server Error"]]
                /\ pc' = [pc EXCEPT ![r] = "done"]
                /\ UNCHANGED <<product, matched, idx>>
           ELSE /\ product' = update_one(product, item.product_id,
                                         item.quantity, now[r])
                /\ matched' = [matched EXCEPT ![r] = Append(@,
                        matched_count(product, item.product_id,
                                      item.quantity))]
                /\ idx' = [idx EXCEPT ![r] = @ + 1]
                /\ UNCHANGED <<pc, resp>>
    /\ UNCHANGED <<user, order, next_id, clock, response, req, now,
                   initial_stock, admin_approved>>

\* variant: an item that cannot be served gives back what the earlier
\* items of the same order took
AdjustItemRollback(r) ==
    /\ pc[r] = "loop"
    /\ idx[r] <= Len(req[r].items)
    /\ LET item == req[r].items[idx[r]]
       IN  IF ~IsObjectId(item.product_id)
              \/ matched_count(product, item.product_id, item.quantity) = 0
           THEN /\ product' = [p \in DOMAIN product |->
                      [product[p] EXCEPT !.stock_qty = @ + Applied(r, p)]]
                /\ matched' = [matched EXCEPT ![r] = Append(@, 0)]
           ELSE /\ product' = update_one(product, item.product_id,
                                         item.quantity, now[r])
                /\ matched' = [matched EXCEPT ![r] = Append(@, 1)]
    /\ idx' = [idx EXCEPT ![r] = @ + 1]
    /\ UNCHANGED <<user, order, next_id, clock, response, pc, req, now, resp,
                   initial_stock, admin_approved>>

\* one iteration of `for item in order.items`
AdjustItem(r) ==
    /\ pc[r] = "loop"
    /\ idx[r] <= Len(req[r].items)
    /\ LET item == req[r].items[idx[r]]
       IN  IF ~IsObjectId(item.product_id)
           THEN \* InvalidId is swallowed: `except Exception: continue`
                /\ matched' = [matched EXCEPT ![r] = Append(@, 0)]
                /\ UNCHANGED product
           ELSE /\ product' = update_one(product, item.product_id,
                                         item.quantity, now[r])
                /\ matched' = [matched EXCEPT ![r] = Append(@,
                        matched_count(product, item.product_id,
                                      item.quantity))]
    /\ idx' = [idx EXCEPT ![r] = @ + 1]
    /\ UNCHANGED <<user, order, next_id, clock, response, pc, req, now, resp,
                   initial_stock, admin_approved>>

\* variant: an order equal to a stored one is answered with the stored one
InsertOrderDedup(r) ==
    /\ pc[r] = "loop"
    /\ idx[r] > Len(req[r].items)
    /\ LET same == {i \in 1..Len(order) :
                      /\ order[i].user_email = req[r].user_email
                      /\ order[i].items = req[r].items
                      /\ order[i].total = req[r].total}
       IN  IF same # {}
           THEN /\ resp' = [resp EXCEPT ![r] =
                       [status |-> 200, detail |-> "",
                        body |-> oid_to_str(order[CHOOSE i \in same : TRUE])]]
                /\ UNCHANGED <<order, next_id>>
           ELSE /\ order' = insert_one(order, NewOrderDoc(req[r], now[r]),
                                       next_id.order)
                /\ next_id' = [next_id EXCEPT !.order = @ + 1]
                /\ resp' = [resp EXCEPT ![r] =
                       [status |-> 200, detail |-> "",
                        body |-> oid_to_str(order'[Len(order')])]]
    /\ pc' = [pc EXCEPT ![r] = "done"]
    /\ UNCHANGED <<product, user, clock, response, req, now, idx, matched,
                   initial_stock, admin_approved>>

\* insert_one, find_one of the inserted id, oid_to_str
InsertOrder(r) ==
    /\ pc[r] = "loop"
    /\ idx[r] > Len(req[r].items)
    /\ order' = insert_one(order, NewOrderDoc(req[r], now[r]), next_id.order)
    /\ next_id' = [next_id EXCEPT !.order = @ + 1]
    /\ resp' = [resp EXCEPT ![r] =
                  [status |-> 200, detail |-> "",
                   body |-> oid_to_str(order'[Len(order')])]]
    /\ pc' = [pc EXCEPT ![r] = "done"]
    /\ UNCHANGED <<product, user, clock, response, req, now, idx, matched,
                   initial_stock, admin_approved>>

(* -------------------------------- users -------------------------------- *)

register_user(email, password, role) ==
    /\ clock + 1 < MaxClock
    /\ IF email \in DOMAIN user
       THEN /\ response' = [op |-> "register_user", status |-> 400,
                            detail |-> "Email already registered",
                            email |-> email]
            /\ UNCHANGED <<user, clock>>
       ELSE /\ user' = Put(user, email,
                    [password |-> password, role |-> role,
                     approved |-> (role = "admin"),
                     created_at |-> clock, updated_at |-> clock + 1])
            /\ clock' = clock + 2
            /\ response' = [op |-> "register_user", status |-> 200,
                            detail |-> "", email |-> email]
    /\ UNCHANGED <<product, order, next_id, order_vars, initial_stock,
                   admin_approved>>

\* variant: the approved flag is not consulted
login_unchecked(email, password) ==
    /\ IF email \notin DOMAIN user \/ user[email].password # password
       THEN response' = [op |-> "login", status |-> 401,
                         detail |-> "Invalid credentials",
                         email |-> email, password |-> password]
       ELSE response' = [op |-> "login", status |-> 200, detail |-> "",
                         email |-> email, password |-> password]
    /\ UNCHANGED <<product, user, order, next_id, clock, order_vars,
                   initial_stock, admin_approved>>

login(email, password) ==
    /\ IF email \notin DOMAIN user \/ user[email].password # password
       THEN response' = [op |-> "login", status |-> 401,
                         detail |-> "Invalid credentials",
                         email |-> email, password |-> password]
       ELSE IF ~user[email].approved
       THEN response' = [op |-> "login", status |-> 403,
                         detail |-> "Account awaiting approval",
                         email |-> email, password |-> password]
       ELSE response' = [op |-> "login", status |-> 200, detail |-> "",
                         email |-> email, password |-> password]
    /\ UNCHANGED <<product, user, order, next_id, clock, order_vars,
                   initial_stock, admin_approved>>

approve_user(email, x_admin) ==
    /\ clock < MaxClock
    /\ IF ~require_admin(x_admin)
       THEN /\ response' = [op |-> "approve_user", status |-> 403,
                            detail |-> "Admin access required",
                            email |-> email, x_admin |-> x_admin]
            /\ UNCHANGED <<user, clock, admin_approved>>
       ELSE IF email \notin DOMAIN user
       THEN \* datetime.now() is evaluated before update_one matches nothing
            /\ response' = [op |-> "approve_user", status |-> 404,
                            detail |-> "User not found",
                            email |-> email, x_admin |-> x_admin]
            /\ clock' = clock + 1
            /\ UNCHANGED <<user, admin_approved>>
       ELSE /\ user' = [user EXCEPT ![email].approved = TRUE,
                                    ![email].updated_at = clock]
            /\ clock' = clock + 1
            /\ admin_approved' = admin_approved \cup {email}
            /\ response' = [op |-> "approve_user", status |-> 200,
                            detail |-> "approved",
                            email |-> email, x_admin |-> x_admin]
    /\ UNCHANGED <<product, order, next_id, order_vars, initial_stock>>

(* --------------------- order placement, one caller --------------------- *)

Next ==
    \/ create_product(2, "true")
    \/ \E items \in SeqsUpTo(WideItems, MaxItems), total \in Totals :
          create_order(1, "a@x.io", items, total)
    \/ AdjustItem(1)
    \/ InsertOrder(1)

Spec == Init /\ [][Next]_vars

(* ------------------- order placement, concurrent callers --------------- *)

RaceOrders ==
    {items \in SeqsUpTo(RaceItems, MaxItems) : calc_total(items) = 2000}

NextRace ==
    \/ create_product(2, "true")
    \/ delete_product(1, "true")
    \/ \E r \in Workers, items \in RaceOrders :
          create_order(r, "a@x.io", items, 2000)
    \/ \E r \in Workers : AdjustItem(r)
    \/ \E r \in Workers : InsertOrder(r)

SpecRace == Init /\ [][NextRace]_vars

(* --------------------------- product management ------------------------ *)

NextProducts ==
    \/ \E q \in StockQtys, x \in XAdmin : create_product(q, x)
    \/ \E id \in 0..MaxProducts, x \in XAdmin : delete_product(id, x)

SpecProducts == Init /\ [][NextProducts]_vars

(* ------------------------------- accounts ------------------------------ *)

NextUsers ==
    \/ \E e \in Emails, p \in Passwords, ro \in Roles : register_user(e, p, ro)
    \/ \E e \in Emails, p \in Passwords : login(e, p)
    \/ \E e \in Emails, x \in XAdmin : approve_user(e, x)

SpecUsers == Init /\ [][NextUsers]_vars

(* ============================== properties ============================= *)

Passed(r) ==
    /\ pc[r] # "idle"
    /\ OrderInValid(req[r].items, req[r].total)
    /\ round2(calc_total(req[r].items)) = round2(req[r].total)

Completed(r) == pc[r] = "done" /\ resp[r].status = 200

Stored(r) == {i \in 1..Len(order) : order[i]["_id"] = resp[r].body.id}

\* the step taken is one iteration of call r's loop
ItemStep(r) == pc[r] = "loop" /\ idx'[r] = idx[r] + 1

CurrentItem(r) == req[r].items[idx[r]]

Matches(r) ==
    /\ CurrentItem(r).product_id \in DOMAIN product
    /\ product[CurrentItem(r).product_id].stock_qty >= CurrentItem(r).quantity

OrderTotalsConsistent ==
    \A i \in 1..Len(order) :
        round2(order[i].total) = round2(calc_total(order[i].items))

MismatchStep ==
    \A r \in Workers :
        (/\ pc[r] = "idle" /\ pc'[r] # "idle"
         /\ OrderInValid(req'[r].items, req'[r].total)
         /\ round2(calc_total(req'[r].items)) # round2(req'[r].total))
        => (/\ resp'[r] = [status |-> 400, detail |-> "Total mismatch"]
            /\ pc'[r] = "done"
            /\ product' = product
            /\ order' = order)

\* C1: a schema-valid create_order request whose rounded computed total
\* differs from its rounded claimed total is answered 400 'Total mismatch'
\* and writes nothing (no order, no product change); every stored order has
\* round(total, 2) = round(sum of price x quantity, 2).
C1_TotalMismatchRejected ==
    []OrderTotalsConsistent /\ [][MismatchStep]_vars

C1_Witness ==
    /\ pc[1] = "done"
    /\ resp[1].status = 400
    /\ calc_total(req[1].items) = 2008
    /\ req[1].total = 2000
    /\ DOMAIN product # {}
    /\ order = <<>>

\* C2: under any interleaving of create_order calls, no product's stock_qty
\* becomes negative, and two calls whose items on one product together ask
\* for more than the product was stocked with are never both served.
C2_NoOversell ==
    /\ \A p \in DOMAIN product : product[p].stock_qty >= 0
    /\ \A r1, r2 \in Workers : \A i \in 1..Len(matched[r1]) :
          \A j \in 1..Len(matched[r2]) :
            (/\ r1 # r2
             /\ req[r1].items[i].product_id = req[r2].items[j].product_id
             /\ req[r1].items[i].product_id \in DOMAIN initial_stock
             /\ req[r1].items[i].quantity + req[r2].items[j].quantity
                   > initial_stock[req[r1].items[i].product_id])
            => ~(matched[r1][i] = 1 /\ matched[r2][j] = 1)

C2_Witness ==
    /\ pc[1] = "loop" /\ pc[2] = "loop"
    /\ Len(matched[1]) = 1 /\ Len(matched[2]) = 1
    /\ req[1].items[1].product_id = 1 /\ req[2].items[1].product_id = 1
    /\ req[1].items[1].quantity = 1 /\ req[2].items[1].quantity = 2
    /\ now[1] < now[2]
    /\ matched[1][1] = 0 /\ matched[2][1] = 1
    /\ product[1].stock_qty = 0

SkipStep ==
    \A r \in Workers :
        (ItemStep(r) /\ ~Matches(r))
        => (/\ product' = product
            /\ resp'[r] = resp[r]
            /\ pc'[r] = "loop")

PassedIsStored ==
    \A r \in Workers :
        (Passed(r) /\ pc[r] = "done")
        => (/\ resp[r].status = 200
            /\ \E i \in 1..Len(order) :
                 /\ resp[r].body = oid_to_str(order[i])
                 /\ order[i].items = req[r].items)

\* C3: in a call that passed total validation, an item whose update matches
\* no product (stock below the quantity, product absent, malformed id)
\* changes no product and reports no error, and the call still ends with
\* the order inserted and returned.
C3_SkippedItemStillOrders ==
    []PassedIsStored /\ [][SkipStep]_vars

C3_Witness ==
    \E r \in Workers :
        /\ Completed(r)
        /\ Len(req[r].items) = 2
        /\ req[r].items[1].product_id = 0
        /\ req[r].items[2].product_id \in DOMAIN product
        /\ product[req[r].items[2].product_id].stock_qty
              < req[r].items[2].quantity
        /\ matched[r] = <<0, 0>>
        /\ Stored(r) # {}

DecrementStep ==
    \A r \in Workers :
        (ItemStep(r) /\ Matches(r))
        => LET id == CurrentItem(r).product_id
           IN  /\ DOMAIN product' = DOMAIN product
               /\ product'[id].stock_qty
                     = product[id].stock_qty - CurrentItem(r).quantity
               /\ product'[id].updated_at = now[r]
               /\ \A p \in DOMAIN product \ {id} : product'[p] = product[p]
               /\ matched'[r] = Append(matched[r], 1)

\* C4: an item whose product exists with stock_qty >= its quantity at the
\* moment of its update is served once: that product's stock_qty drops by
\* exactly the quantity, its updated_at is set to the call's `now`, and no
\* other product changes.
C4_DecrementExact ==
    [][DecrementStep]_vars

C4_Witness ==
    \E r \in Workers :
        /\ Len(matched[r]) = 1
        /\ matched[r][1] = 1
        /\ req[r].items[1].quantity = 2
        /\ req[r].items[1].product_id = 1
        /\ product[1].stock_qty = 0
        /\ product[1].updated_at = now[r]
        /\ product[1].updated_at > product[1].created_at
        /\ 2 \in DOMAIN product
        /\ product[2].stock_qty = 2

\* C5: every call that passed validation and completed has inserted exactly
\* one order record, stored ids are pairwise distinct, and equal requests
\* are not merged.
C5_OneOrderPerRequest ==
    /\ \A i, j \in 1..Len(order) :
          i # j => order[i]["_id"] # order[j]["_id"]
    /\ Len(order) = Cardinality({r \in Workers : Completed(r)})
    /\ \A r \in Workers : Completed(r) => Cardinality(Stored(r)) = 1
    /\ \A r1, r2 \in Workers :
          (r1 # r2 /\ Completed(r1) /\ Completed(r2))
          => resp[r1].body.id # resp[r2].body.id

C5_Witness ==
    /\ Completed(1) /\ Completed(2)
    /\ req[1] = req[2]
    /\ Len(req[1].items) = 2
    /\ Len(order) = 2
    /\ order[1].items = order[2].items
    /\ order[1]["_id"] # order[2]["_id"]

OrdersPending ==
    \A i \in 1..Len(order) :
        /\ order[i].status = "pending"
        /\ order[i].created_at = order[i].updated_at

OrdersKept ==
    \A i \in 1..Len(order) : i <= Len(order') /\ order'[i] = order[i]

\* C6: every order record create_order inserts has status 'pending' and
\* created_at = updated_at, whatever the per-item updates did, and stored
\* orders are never rewritten.
C6_PendingAtCreation ==
    []OrdersPending /\ [][OrdersKept]_vars

C6_Witness ==
    /\ Completed(1)
    /\ matched[1] = <<1, 0>>
    /\ Len(order) = 1
    /\ order[1].status = "pending"
    /\ order[1].created_at = now[1]

\* C7: every item of every stored order has a non-negative price and a
\* quantity >= 1.
C7_ItemsNonNegative ==
    \A i \in 1..Len(order) : \A k \in 1..Len(order[i].items) :
        /\ order[i].items[k].price >= 0
        /\ order[i].items[k].quantity >= 1

\* C8: the items are tried one at a time in submission order and what an
\* item took stays taken: at all times each product's stock_qty is its
\* initial stock minus everything the served items took, also after later
\* items of the same order were skipped, and the call still stores its
\* order.
C8_NoRollback ==
    /\ \A r \in Workers :
          /\ pc[r] = "loop" => Len(matched[r]) = idx[r] - 1
          /\ Completed(r) => /\ Len(matched[r]) = Len(req[r].items)
                             /\ Stored(r) # {}
    /\ \A p \in DOMAIN product :
          product[p].stock_qty = initial_stock[p] - AppliedBy(Workers, p)

C8_Witness ==
    \E r \in Workers :
        /\ Completed(r)
        /\ matched[r] = <<1, 0>>
        /\ req[r].items[1].product_id = 1
        /\ req[r].items[2].product_id = 2
        /\ product[1].stock_qty = 1
        /\ 2 \notin DOMAIN product
        /\ Stored(r) # {}

\* C9: delete_product with the admin header and a well-formed id that
\* matches no product answers 404 'Product not found' and leaves the
\* product collection unchanged.
C9_DeleteMissingIs404 ==
    [][(/\ response'.op = "delete_product"
        /\ response'.x_admin = "true"
        /\ IsObjectId(response'.product_id)
        /\ response'.product_id \notin DOMAIN product)
       => (/\ response'.status = 404
           /\ response'.detail = "Product not found"
           /\ product' = product)]_vars

LoginGated ==
    /\ (response.op = "login" /\ response.status = 200)
          => (/\ response.email \in DOMAIN user
              /\ user[response.email].approved
              /\ user[response.email].password = response.password)
    /\ \A e \in DOMAIN user :
          user[e].approved => (user[e].role = "admin" \/ e \in admin_approved)
    /\ (/\ response.op = "login"
        /\ response.email \in DOMAIN user
        /\ ~user[response.email].approved)
          => IF user[response.email].password = response.password
             THEN /\ response.status = 403
                  /\ response.detail = "Account awaiting approval"
             ELSE /\ response.status = 401
                  /\ response.detail = "Invalid credentials"

NoHeaderNoApproval ==
    (response'.op = "approve_user" /\ response'.x_admin # "true")
        => (user' = user /\ response'.status = 403)

ApprovalSticks ==
    \A e \in DOMAIN user :
        /\ e \in DOMAIN user'
        /\ user[e].approved => user'[e].approved
        /\ (~user[e].approved /\ user'[e].approved)
              => (/\ response'.op = "approve_user"
                  /\ response'.x_admin = "true"
                  /\ response'.email = e)

====
